---- MODULE Spec2Model ----
(***************************************************************************)
(* The board engine of 2048.py (class Board): the grid, the score and the  *)
(* one-level undo buffer, with add_tile, perform_move, the four swipes,    *)
(* undo and is_game_over.                                                  *)
(*                                                                         *)
(* Spec     : a game from Board(size), by add_tile / perform_move / undo.  *)
(* SpecGrid : one swipe or one is_game_over() on an arbitrary grid of 2s   *)
(*            and 4s.                                                      *)
(* SpecAny  : the same calls, the inputs of SpecGrid and the full grids.   *)
(***************************************************************************)
EXTENDS Integers, Sequences, FiniteSets, TLC

\* ---------------------------------------------------------------- bounds
MaxSize == 4      \* board sizes 1 .. MaxSize
MaxWork == 16     \* Spec: a board of n*n cells gets 2 + MaxWork \div (n*n) operations
MaxCells == 16    \* SpecGrid: an input grid of size n holds t tiles, t*n <= MaxCells
MaxFull == 3      \* SpecAny: also the full grids of the sizes 1 .. MaxFull

\* ------------------------------------------------------------ the state
VARIABLES size, grid, prev_grid, undo_available, score, steps, last, hist

vars == <<size, grid, prev_grid, undo_available, score, steps, last, hist>>

\* Python's None in a grid cell; the swipes' sentinel is the number 0.
None == -1
\* Python's None as the value of _prev_grid.
NoGrid == <<>>

Idx(n) == 0 .. (n - 1)

\* [[None for i in range(size)] for i in range(size)], addressed grid[y][x]
EmptyGrid(n) == [y \in Idx(n) |-> [x \in Idx(n) |-> None]]

Directions == {"l", "r", "u", "d"}

\* SpawnValues with "random.randint(1, 3) * 2"
SpawnValuesUpToThree == {1 * 2, 2 * 2, 3 * 2}

\* random.randint(1, 2) * 2: the value of a new tile
SpawnValues == {1 * 2, 2 * 2}

\* ------------------------------------------------- the swipe's inner loop
RECURSIVE ScanChained(_, _, _)
\* Scan without "row.append(0)" after a merge: a merged tile can merge again
ScanChained(cells, row, pts) ==
    IF cells = <<>> THEN [row |-> row, pts |-> pts]
    ELSE LET cur_tile == Head(cells) IN
         IF cur_tile # None
         THEN IF cur_tile = row[Len(row)]
              THEN ScanChained(Tail(cells),
                               [row EXCEPT ![Len(row)] = cur_tile * 2],
                               pts + cur_tile * 2)
              ELSE ScanChained(Tail(cells), Append(row, cur_tile), pts)
         ELSE ScanChained(Tail(cells), row, pts)

RECURSIVE ScanNotDoubled(_, _, _)
\* Scan without "row[-1] = cur_tile * 2": the merged tile keeps its value
ScanNotDoubled(cells, row, pts) ==
    IF cells = <<>> THEN [row |-> row, pts |-> pts]
    ELSE LET cur_tile == Head(cells) IN
         IF cur_tile # None
         THEN IF cur_tile = row[Len(row)]
              THEN ScanNotDoubled(Tail(cells), Append(row, 0), pts + cur_tile * 2)
              ELSE ScanNotDoubled(Tail(cells), Append(row, cur_tile), pts)
         ELSE ScanNotDoubled(Tail(cells), row, pts)

RECURSIVE ScanScoresTile(_, _, _)
\* Scan with "self._score += cur_tile": the value before doubling is scored
ScanScoresTile(cells, row, pts) ==
    IF cells = <<>> THEN [row |-> row, pts |-> pts]
    ELSE LET cur_tile == Head(cells) IN
         IF cur_tile # None
         THEN IF cur_tile = row[Len(row)]
              THEN ScanScoresTile(Tail(cells),
                                  Append([row EXCEPT ![Len(row)] = cur_tile * 2], 0),
                                  pts + cur_tile)
              ELSE ScanScoresTile(Tail(cells), Append(row, cur_tile), pts)
         ELSE ScanScoresTile(Tail(cells), row, pts)

RECURSIVE Scan(_, _, _)
\* One line's scan: cells in scan order, row the output list (seeded [0]),
\* pts what the line adds to _score.
Scan(cells, row, pts) ==
    IF cells = <<>> THEN [row |-> row, pts |-> pts]
    ELSE LET cur_tile == Head(cells) IN
         IF cur_tile # None
         THEN IF cur_tile = row[Len(row)]
              THEN Scan(Tail(cells),
                        Append([row EXCEPT ![Len(row)] = cur_tile * 2], 0),
                        pts + cur_tile * 2)
              ELSE Scan(Tail(cells), Append(row, cur_tile), pts)
         ELSE Scan(Tail(cells), row, pts)

\* the numbers of row that "if num != 0" lets through, in order
Written(row) == SelectSeq(row, LAMBDA num : num # 0)

\* x = 0; for num in row: if num != 0: line[x] = num; x += 1
\* (every cell of the line was set to None by the scan)
WriteForward(row, n) ==
    LET w == Written(row)
    IN [i \in Idx(n) |-> IF i < Len(w) THEN w[i + 1] ELSE None]

\* WriteBackward starting at "x = 0": line[0], then line[-1], line[-2], ...
WriteBackwardFromZero(row, n) ==
    LET w == Written(row)
    IN [i \in Idx(n) |-> IF i = 0 /\ Len(w) >= 1 THEN w[1]
                         ELSE IF i > 0 /\ n - i + 1 <= Len(w) THEN w[n - i + 1]
                         ELSE None]

\* x = -1; for num in row: if num != 0: line[x] = num; x -= 1
\* (line[-k] is line[n - k], written for k = 1 .. len)
WriteBackward(row, n) ==
    LET w == Written(row)
    IN [i \in Idx(n) |-> IF n - i <= Len(w) THEN w[n - i] ELSE None]

\* ------------------------------------------------------ the four swipes
\* Each loops over the lines, rewriting the grid in place and adding to
\* _score; the result is the grid after the swipe and the points added.
RECURSIVE swipe_left_rows(_, _, _, _)
swipe_left_rows(g, n, y, pts) ==
    IF y = n THEN [grid |-> g, pts |-> pts]
    ELSE LET line == Scan([k \in 1 .. n |-> g[y][k - 1]], <<0>>, 0)
         IN swipe_left_rows([g EXCEPT ![y] = WriteForward(line.row, n)],
                            n, y + 1, pts + line.pts)

swipe_left(g, n) == swipe_left_rows(g, n, 0, 0)

RECURSIVE swipe_right_scanning_forward(_, _, _, _)
\* swipe_right with swipe_left's scan order "for x in range(self._size)"
swipe_right_scanning_forward(g, n, y, pts) ==
    IF y = n THEN [grid |-> g, pts |-> pts]
    ELSE LET line == Scan([k \in 1 .. n |-> g[y][k - 1]], <<0>>, 0)
         IN swipe_right_scanning_forward(
                [g EXCEPT ![y] = WriteBackward(line.row, n)],
                n, y + 1, pts + line.pts)

swipe_right_from_the_left(g, n) == swipe_right_scanning_forward(g, n, 0, 0)

RECURSIVE swipe_right_rows(_, _, _, _)
swipe_right_rows(g, n, y, pts) ==
    IF y = n THEN [grid |-> g, pts |-> pts]
    ELSE LET line == Scan([k \in 1 .. n |-> g[y][n - k]], <<0>>, 0)
         IN swipe_right_rows([g EXCEPT ![y] = WriteBackward(line.row, n)],
                             n, y + 1, pts + line.pts)

swipe_right(g, n) == swipe_right_rows(g, n, 0, 0)

RECURSIVE swipe_up_writing_rows(_, _, _, _)
\* swipe_up writing "self._grid[x][y] = num": column x is cleared by the scan
\* and its numbers go to the front of row x
swipe_up_writing_rows(g, n, x, pts) ==
    IF x = n THEN [grid |-> g, pts |-> pts]
    ELSE LET line == Scan([k \in 1 .. n |-> g[k - 1][x]], <<0>>, 0)
             w == Written(line.row)
             cleared == [y \in Idx(n) |-> [g[y] EXCEPT ![x] = None]]
         IN swipe_up_writing_rows(
                [cleared EXCEPT ![x] = [i \in Idx(n) |->
                    IF i < Len(w) THEN w[i + 1] ELSE cleared[x][i]]],
                n, x + 1, pts + line.pts)

swipe_up_into_rows(g, n) == swipe_up_writing_rows(g, n, 0, 0)

RECURSIVE swipe_up_columns(_, _, _, _)
swipe_up_columns(g, n, x, pts) ==
    IF x = n THEN [grid |-> g, pts |-> pts]
    ELSE LET line == Scan([k \in 1 .. n |-> g[k - 1][x]], <<0>>, 0)
             column == WriteForward(line.row, n)
         IN swipe_up_columns([y \in Idx(n) |-> [g[y] EXCEPT ![x] = column[y]]],
                             n, x + 1, pts + line.pts)

swipe_up(g, n) == swipe_up_columns(g, n, 0, 0)

RECURSIVE swipe_down_scanning_down(_, _, _, _)
\* swipe_down with swipe_up's scan order "for y in range(self._size)"
swipe_down_scanning_down(g, n, x, pts) ==
    IF x = n THEN [grid |-> g, pts |-> pts]
    ELSE LET line == Scan([k \in 1 .. n |-> g[k - 1][x]], <<0>>, 0)
             column == WriteBackward(line.row, n)
         IN swipe_down_scanning_down(
                [y \in Idx(n) |-> [g[y] EXCEPT ![x] = column[y]]],
                n, x + 1, pts + line.pts)

swipe_down_from_the_top(g, n) == swipe_down_scanning_down(g, n, 0, 0)

RECURSIVE swipe_down_columns(_, _, _, _)
swipe_down_columns(g, n, x, pts) ==
    IF x = n THEN [grid |-> g, pts |-> pts]
    ELSE LET line == Scan([k \in 1 .. n |-> g[n - k][x]], <<0>>, 0)
             column == WriteBackward(line.row, n)
         IN swipe_down_columns([y \in Idx(n) |-> [g[y] EXCEPT ![x] = column[y]]],
                               n, x + 1, pts + line.pts)

swipe_down(g, n) == swipe_down_columns(g, n, 0, 0)

\* perform_move's dispatch on direction
Swipe(direction, g, n) ==
    CASE direction = "l" -> swipe_left(g, n)
      [] direction = "r" -> swipe_right(g, n)
      [] direction = "u" -> swipe_up(g, n)
      [] direction = "d" -> swipe_down(g, n)

\* ------------------------------------------------------------- queries
\* get_empty_tiles without "if self._grid[y][x] is None": every location
all_tiles(g, n) == Idx(n) \X Idx(n)

\* the empty (x, y) locations
get_empty_tiles(g, n) ==
    {loc \in Idx(n) \X Idx(n) : g[loc[2]][loc[1]] = None}

can_undo == undo_available

\* the values next to (x, y), as the code collects them
get_adjacent_tiles(g, n, x, y) ==
    (IF 0 < x THEN {g[y][x - 1]} ELSE {})
    \cup (IF x < n - 1 THEN {g[y][x + 1]} ELSE {})
    \cup (IF 0 < y THEN {g[y - 1][x]} ELSE {})
    \cup (IF y < n - 1 THEN {g[y][y + 1]} ELSE {})

is_game_over(g, n) ==
    IF get_empty_tiles(g, n) # {} THEN FALSE
    ELSE ~ \E y \in Idx(n), x \in Idx(n) :
             g[y][x] \in get_adjacent_tiles(g, n, x, y)

\* -------------------------------------------------------- bookkeeping
\* The operation that led to the current state: its name, its argument,
\* whether it changed the grid, and what a query returned.
Did(op, arg, effective, result) ==
    [op |-> op, arg |-> arg, effective |-> effective, result |-> result]

\* hist.before_effective is the grid as it was just before the most recent
\* swipe that changed it, hist.direction and hist.pts are that swipe's
\* direction and points, hist.effective counts those swipes, hist.noops the
\* moves since then whose swipe changed nothing, and hist.added sums the
\* tiles add_tile has placed since then. A swipe that changes the grid right
\* after an undo that restored it, in the direction of the move undone,
\* continues a run of move/undo cycles: hist.cycles is the length of the run
\* and hist.start_score the score when it began.
NoHistory ==
    [effective |-> 0, before_effective |-> NoGrid, direction |-> "", pts |-> 0,
     noops |-> 0, added |-> 0, cycles |-> 0, start_score |-> 0]

Replayed(direction) ==
    last.op = "undo" /\ last.effective /\ direction = hist.direction

Moved(g, direction, pts) ==
    [effective |-> hist.effective + 1, before_effective |-> g,
     direction |-> direction, pts |-> pts, noops |-> 0, added |-> 0,
     cycles |-> IF Replayed(direction) THEN hist.cycles + 1 ELSE 1,
     start_score |-> IF Replayed(direction) THEN hist.start_score ELSE score]

NotMoved == [hist EXCEPT !.noops = @ + 1]

Added(num) == [hist EXCEPT !.added = @ + num]

\* The successors of a state grow with the number of cells (a move spawns on
\* any empty cell), so larger boards get fewer operations.
StepBound(n) == 2 + MaxWork \div (n * n)

\* ------------------------------------------------------------ the game
\* Board(size)
Init ==
    /\ size \in 1 .. MaxSize
    /\ grid = EmptyGrid(size)
    /\ prev_grid = NoGrid
    /\ undo_available = FALSE
    /\ score = 0
    /\ steps = 0
    /\ last = Did("new", "", FALSE, FALSE)
    /\ hist = NoHistory

\* add_tile(): a 2 or a 4 on one of the empty locations. With no empty
\* location random.choice raises IndexError before anything is written.
AddTile ==
    /\ steps < StepBound(size)
    /\ IF get_empty_tiles(grid, size) = {}
       THEN /\ last' = Did("add_tile_fault", "", FALSE, FALSE)
            /\ UNCHANGED <<grid, hist>>
       ELSE /\ \E num \in SpawnValues, loc \in get_empty_tiles(grid, size) :
                  /\ grid' = [grid EXCEPT ![loc[2]][loc[1]] = num]
                  /\ hist' = Added(num)
            /\ last' = Did("add_tile", "", TRUE, FALSE)
    /\ steps' = steps + 1
    /\ UNCHANGED <<size, prev_grid, undo_available, score>>

\* the comparison taken to be true: every move commits and spawns
ChangedAlways(g, copy) == TRUE

\* "if self._grid != copy"
Changed(g, copy) == g # copy

\* Move, but the snapshot is taken only while there is none
MoveKeepsSnapshot(direction) ==
    \E copy \in {grid}, sw \in {Swipe(direction, grid, size)} :
       /\ score' = score + sw.pts
       /\ hist' = IF sw.grid # grid THEN Moved(grid, direction, sw.pts)
                  ELSE NotMoved
       /\ last' = Did("perform_move", direction, sw.grid # grid, FALSE)
       /\ IF Changed(sw.grid, copy)
          THEN /\ prev_grid' = IF prev_grid = NoGrid THEN copy ELSE prev_grid
               /\ undo_available' = TRUE
               /\ \E num \in SpawnValues,
                     loc \in get_empty_tiles(sw.grid, size) :
                     grid' = [sw.grid EXCEPT ![loc[2]][loc[1]] = num]
          ELSE /\ grid' = copy
               /\ UNCHANGED <<prev_grid, undo_available>>

\* perform_move(direction) once the assert has passed: the swipe adds to
\* _score in either branch; at "else" the swiped grid is dropped for the
\* copy. Were add_tile to find no empty location, its IndexError would leave
\* the swiped grid and the new snapshot behind.
Move(direction) ==
    \E copy \in {grid}, sw \in {Swipe(direction, grid, size)} :
       /\ score' = score + sw.pts
       /\ hist' = IF sw.grid # grid THEN Moved(grid, direction, sw.pts)
                  ELSE NotMoved
       /\ IF Changed(sw.grid, copy)
          THEN /\ prev_grid' = copy
               /\ undo_available' = TRUE
               /\ IF get_empty_tiles(sw.grid, size) = {}
                  THEN /\ grid' = sw.grid
                       /\ last' = Did("perform_move_fault", direction,
                                      sw.grid # grid, FALSE)
                  ELSE /\ \E num \in SpawnValues,
                             loc \in get_empty_tiles(sw.grid, size) :
                             grid' = [sw.grid EXCEPT ![loc[2]][loc[1]] = num]
                       /\ last' = Did("perform_move", direction,
                                      sw.grid # grid, FALSE)
          ELSE /\ grid' = copy
               /\ UNCHANGED <<prev_grid, undo_available>>
               /\ last' = Did("perform_move", direction, sw.grid # grid, FALSE)

\* perform_move without the assert: no branch of the dispatch is taken, the
\* grid equals its copy and the call returns
PerformMoveUnchecked(direction) ==
    /\ steps < StepBound(size)
    /\ IF direction \in Directions
       THEN Move(direction)
       ELSE /\ last' = Did("perform_move", direction, FALSE, FALSE)
            /\ UNCHANGED <<grid, prev_grid, undo_available, score, hist>>
    /\ steps' = steps + 1
    /\ UNCHANGED size

\* perform_move(direction): "assert direction in [...]" raises AssertionError
\* before anything is read or written.
PerformMove(direction) ==
    /\ steps < StepBound(size)
    /\ IF direction \in Directions
       THEN Move(direction)
       ELSE /\ last' = Did("perform_move_fault", direction, FALSE, FALSE)
            /\ UNCHANGED <<grid, prev_grid, undo_available, score, hist>>
    /\ steps' = steps + 1
    /\ UNCHANGED size

\* undo() without "self._undo_available = False"
UndoKeepsFlag ==
    /\ steps < StepBound(size)
    /\ IF undo_available
       THEN grid' = prev_grid
       ELSE UNCHANGED grid
    /\ last' = Did("undo", "", undo_available, FALSE)
    /\ steps' = steps + 1
    /\ UNCHANGED <<size, prev_grid, undo_available, score, hist>>

\* undo() restoring the grid from itself instead of from _prev_grid
UndoKeepsGrid ==
    /\ steps < StepBound(size)
    /\ IF undo_available
       THEN /\ grid' = grid
            /\ undo_available' = FALSE
       ELSE UNCHANGED <<grid, undo_available>>
    /\ last' = Did("undo", "", undo_available, FALSE)
    /\ steps' = steps + 1
    /\ UNCHANGED <<size, prev_grid, score, hist>>

\* undo() that also takes the score back to zero
UndoResetsScore ==
    /\ steps < StepBound(size)
    /\ IF undo_available
       THEN /\ grid' = prev_grid
            /\ undo_available' = FALSE
            /\ score' = 0
       ELSE UNCHANGED <<grid, undo_available, score>>
    /\ last' = Did("undo", "", undo_available, FALSE)
    /\ steps' = steps + 1
    /\ UNCHANGED <<size, prev_grid, hist>>

\* undo() that also sets "self._prev_grid = None"
UndoClearsSnapshot ==
    /\ steps < StepBound(size)
    /\ IF undo_available
       THEN /\ grid' = prev_grid
            /\ undo_available' = FALSE
            /\ prev_grid' = NoGrid
       ELSE UNCHANGED <<grid, undo_available, prev_grid>>
    /\ last' = Did("undo", "", undo_available, FALSE)
    /\ steps' = steps + 1
    /\ UNCHANGED <<size, score, hist>>

\* undo()
Undo ==
    /\ steps < StepBound(size)
    /\ IF undo_available
       THEN /\ grid' = prev_grid
            /\ undo_available' = FALSE
       ELSE UNCHANGED <<grid, undo_available>>
    /\ last' = Did("undo", "", undo_available, FALSE)
    /\ steps' = steps + 1
    /\ UNCHANGED <<size, prev_grid, score, hist>>

\* what a caller may pass as direction: the four tokens and any other value
Tokens == Directions \cup {"x"}

Next ==
    \/ AddTile
    \/ \E direction \in Tokens : PerformMove(direction)
    \/ Undo

Spec == Init /\ [][Next]_vars

\* ------------------------------------------------- arbitrary input grids
RECURSIVE CellSets(_, _)
\* the sets of at most k of the cell numbers in S
CellSets(S, k) ==
    IF k = 0 THEN {{}}
    ELSE {{}} \cup UNION {{T \cup {c} : T \in CellSets({b \in S : b < c}, k - 1)}
                           : c \in S}

\* the grid of size n with the tiles f (cell number y*n + x -> value)
GridOf(n, f) ==
    [y \in Idx(n) |->
       [x \in Idx(n) |-> IF y * n + x \in DOMAIN f THEN f[y * n + x] ELSE None]]

\* Any grid that add_tile alone can build, of any size, with at most
\* MaxCells \div size tiles.
InitGrid ==
    /\ size \in 1 .. MaxSize
    /\ \E T \in CellSets(0 .. (size * size - 1), MaxCells \div size) :
          \E f \in [T -> SpawnValues] : grid = GridOf(size, f)
    /\ prev_grid = NoGrid
    /\ undo_available = FALSE
    /\ score = 0
    /\ steps = 0
    /\ last = Did("new", "", FALSE, FALSE)
    /\ hist = NoHistory

\* one call of swipe_left / swipe_right / swipe_up / swipe_down on the input
SwipeCall(direction, sw) ==
    /\ grid' = sw.grid
    /\ score' = score + sw.pts
    /\ last' = Did("swipe", direction, sw.grid # grid, FALSE)
    /\ hist' = IF sw.grid # grid THEN Moved(grid, direction, sw.pts)
               ELSE NotMoved
    /\ steps' = steps + 1
    /\ UNCHANGED <<size, prev_grid, undo_available>>

SwipeLeft ==
    /\ steps = 0
    /\ \E sw \in {swipe_left(grid, size)} : SwipeCall("l", sw)

SwipeRight ==
    /\ steps = 0
    /\ \E sw \in {swipe_right(grid, size)} : SwipeCall("r", sw)

SwipeUp ==
    /\ steps = 0
    /\ \E sw \in {swipe_up(grid, size)} : SwipeCall("u", sw)

SwipeDown ==
    /\ steps = 0
    /\ \E sw \in {swipe_down(grid, size)} : SwipeCall("d", sw)

\* one call of is_game_over() on the input
IsGameOver ==
    /\ steps = 0
    /\ last' = Did("is_game_over", "", FALSE, is_game_over(grid, size))
    /\ steps' = steps + 1
    /\ UNCHANGED <<size, grid, prev_grid, undo_available, score, hist>>

NextGrid ==
    \/ SwipeLeft
    \/ SwipeRight
    \/ SwipeUp
    \/ SwipeDown
    \/ IsGameOver

SpecGrid == InitGrid /\ [][NextGrid]_vars

\* Any grid of a size up to MaxFull that add_tile has filled completely.
InitFull ==
    /\ size \in 1 .. MaxFull
    /\ \E f \in [0 .. (size * size - 1) -> SpawnValues] : grid = GridOf(size, f)
    /\ prev_grid = NoGrid
    /\ undo_available = FALSE
    /\ score = 0
    /\ steps = 0
    /\ last = Did("new", "", FALSE, FALSE)
    /\ hist = NoHistory

InitAny == InitGrid \/ InitFull

SpecAny == InitAny /\ [][NextGrid]_vars

\* =================================================================
\* The claims
\* =================================================================
\* the cells of line i in the scan order of a direction: a row from its left
\* ("l") or right ("r") end, a column from its top ("u") or bottom ("d") end
ScanLine(g, n, direction, i) ==
    CASE direction = "l" -> [k \in 1 .. n |-> g[i][k - 1]]
      [] direction = "r" -> [k \in 1 .. n |-> g[i][n - k]]
      [] direction = "u" -> [k \in 1 .. n |-> g[k - 1][i]]
      [] direction = "d" -> [k \in 1 .. n |-> g[n - k][i]]

\* the non-empty values of a line, in order
Tiles(cells) == SelectSeq(cells, LAMBDA c : c # None)

RECURSIVE SeqSum(_)
SeqSum(t) == IF t = <<>> THEN 0 ELSE Head(t) + SeqSum(Tail(t))

TileCount(g, n) == n * n - Cardinality(get_empty_tiles(g, n))

Full(g, n) == \A y \in Idx(n), x \in Idx(n) : g[y][x] # None

\* two horizontally or vertically adjacent cells hold the same value
EqualNeighbours(g, n) ==
    \/ \E y \in Idx(n), x \in Idx(n - 1) : g[y][x] = g[y][x + 1]
    \/ \E y \in Idx(n - 1), x \in Idx(n) : g[y][x] = g[y + 1][x]

\* ---- C1 ----------------------------------------------------------
\* C1: is_game_over() returns true if and only if the grid has no empty cell
\* and no two horizontally or vertically adjacent cells hold the same value.
C1_GameOverIffStuck ==
    last.op = "is_game_over" =>
        (last.result <=> (Full(grid, size) /\ ~EqualNeighbours(grid, size)))

\* ---- C2 ----------------------------------------------------------
RECURSIVE MergedOnce(_, _)
\* after is before with some neighbouring equal pairs replaced by their sum,
\* no value used in two pairs and no sum merged again
MergedOnce(before, after) ==
    IF before = <<>> THEN after = <<>>
    ELSE /\ after # <<>>
         /\ \/ /\ Head(after) = Head(before)
               /\ MergedOnce(Tail(before), Tail(after))
            \/ /\ Len(before) >= 2
               /\ before[1] = before[2]
               /\ Head(after) = 2 * before[1]
               /\ MergedOnce(Tail(Tail(before)), Tail(after))

\* C2: in one swipe no tile takes part in more than one merge: every line's
\* tiles after the swipe are its tiles before with disjoint neighbouring equal
\* pairs summed; v,v,v,v becomes 2v,2v and v,v,2v becomes 2v,2v.
C2_SingleMerge ==
    [][last'.op = "swipe" =>
        \A i \in Idx(size) :
            LET before == Tiles(ScanLine(grid, size, last'.arg, i))
                after == Tiles(ScanLine(grid', size, last'.arg, i))
            IN /\ MergedOnce(before, after)
               /\ \A v \in SpawnValues :
                     /\ before = <<v, v, v, v>> => after = <<2 * v, 2 * v>>
                     /\ before = <<v, v, 2 * v>> => after = <<2 * v, 2 * v>>
                     /\ before = <<2 * v, v, v>> => after = <<2 * v, 2 * v>>
      ]_vars

\* a row 2,2,2,2 swiped left has become 4,4
C2_Witness ==
    /\ size = 4
    /\ last.op = "swipe" /\ last.arg = "l" /\ last.effective
    /\ ScanLine(hist.before_effective, 4, "l", 0) = <<2, 2, 2, 2>>
    /\ ScanLine(grid, 4, "l", 0) = <<4, 4, None, None>>

\* ---- C3 ----------------------------------------------------------
RECURSIVE GreedyMerge(_)
\* merge equal neighbours greedily from the front, each value used once
GreedyMerge(t) ==
    IF Len(t) < 2 THEN t
    ELSE IF t[1] = t[2]
         THEN <<2 * t[1]>> \o GreedyMerge(SubSeq(t, 3, Len(t)))
         ELSE <<t[1]>> \o GreedyMerge(Tail(t))

\* the values t packed against the destination edge, the rest empty
Packed(t, n) == [k \in 1 .. n |-> IF k <= Len(t) THEN t[k] ELSE None]

\* C3: every line after a swipe, read from the destination edge, is the greedy
\* merge of its non-empty values read from the destination edge, packed
\* against that edge.
C3_SwipeIsGreedyMerge ==
    [][last'.op = "swipe" =>
        \A i \in Idx(size) :
            ScanLine(grid', size, last'.arg, i)
                = Packed(GreedyMerge(Tiles(ScanLine(grid, size, last'.arg, i))), size)
      ]_vars

\* row [2,4,2,2] swiped right has become [empty,2,4,4], for 4 points
C3_Witness ==
    /\ size = 4
    /\ last.op = "swipe" /\ last.arg = "r" /\ last.effective
    /\ \E y \in Idx(4) :
          /\ ScanLine(hist.before_effective, 4, "l", y) = <<2, 4, 2, 2>>
          /\ ScanLine(grid, 4, "l", y) = <<None, 2, 4, 4>>
    /\ score = 4

\* ---- C4 ----------------------------------------------------------
\* C4: a swipe leaves the sum of the tile values of every line of its
\* direction unchanged.
C4_MergeConservation ==
    [][last'.op = "swipe" =>
        \A i \in Idx(size) :
            SeqSum(Tiles(ScanLine(grid', size, last'.arg, i)))
                = SeqSum(Tiles(ScanLine(grid, size, last'.arg, i)))
      ]_vars

\* an upward swipe that merged two pairs
C4_Witness ==
    /\ last.op = "swipe" /\ last.arg = "u" /\ last.effective
    /\ TileCount(hist.before_effective, size) = TileCount(grid, size) + 2
    /\ score >= 8

\* ---- C5 ----------------------------------------------------------
RECURSIVE GreedyPoints(_)
\* the sum of the doubled values of the merges of GreedyMerge
GreedyPoints(t) ==
    IF Len(t) < 2 THEN 0
    ELSE IF t[1] = t[2]
         THEN 2 * t[1] + GreedyPoints(SubSeq(t, 3, Len(t)))
         ELSE GreedyPoints(Tail(t))

RECURSIVE MergePoints(_, _, _, _)
\* the merge points of the lines 0 .. i-1 of a direction
MergePoints(g, n, direction, i) ==
    IF i = 0 THEN 0
    ELSE MergePoints(g, n, direction, i - 1)
         + GreedyPoints(Tiles(ScanLine(g, n, direction, i - 1)))

\* the 4x4 grid whose only tiles are row 0 = [2,2,empty,empty]
TwoTwos == [EmptyGrid(4) EXCEPT ![0][0] = 2, ![0][1] = 2]

\* C5: perform_move increases score by exactly the doubled values of the
\* merges of the move, over all lines; on the 4x4 grid whose only tiles are
\* row 0 = [2,2,empty,empty] a left move makes row 0 start with 4 and adds 4.
C5_ScoreAccrual ==
    [][last'.op = "perform_move" =>
        /\ score' = score + MergePoints(grid, size, last'.arg, size)
        /\ (size = 4 /\ grid = TwoTwos /\ last'.arg = "l") =>
              (grid'[0][0] = 4 /\ score' = score + 4)
      ]_vars

C5_Witness ==
    /\ size = 4
    /\ last.op = "perform_move" /\ last.arg = "l"
    /\ hist.before_effective = TwoTwos
    /\ grid[0][0] = 4
    /\ score = 4

\* ---- C6 ----------------------------------------------------------
\* C6: a perform_move whose swipe leaves the grid as it was changes neither
\* the grid (no tile is spawned) nor score, undo_available or previous_grid.
C6_NoOpMove ==
    [][(last'.op = "perform_move" /\ Swipe(last'.arg, grid, size).grid = grid) =>
        UNCHANGED <<grid, score, undo_available, prev_grid>>
      ]_vars

\* a no-op move on a board with tiles, after an effective move was undone
C6_Witness ==
    /\ last.op = "perform_move" /\ ~last.effective
    /\ hist.effective >= 1 /\ ~can_undo
    /\ grid = hist.before_effective
    /\ TileCount(grid, size) >= 1

\* ---- C7 ----------------------------------------------------------
\* C7: undo() with can_undo() true makes the grid the grid as it was just
\* before the most recent effective perform_move, whatever no-op moves came
\* in between, and leaves score as it is.
C7_UndoRoundTrip ==
    [][(last'.op = "undo" /\ can_undo) =>
        (grid' = hist.before_effective /\ score' = score)
      ]_vars

\* an undo after a merging move and a no-op move: the merge and the spawned
\* tile are gone, the points are kept
C7_Witness ==
    /\ last.op = "undo" /\ last.effective
    /\ hist.noops >= 1
    /\ grid = hist.before_effective
    /\ score > 0

\* ---- C8 ----------------------------------------------------------
\* C8: undo() with can_undo() false changes nothing, and after any undo()
\* can_undo() is false.
C8_UndoSingleLevel ==
    [][last'.op = "undo" =>
        /\ ~can_undo'
        /\ ~can_undo => UNCHANGED <<grid, score, undo_available, prev_grid>>
      ]_vars

\* an undo that did nothing, on a board whose last effective move was undone
C8_Witness ==
    /\ last.op = "undo" /\ ~last.effective
    /\ hist.effective >= 1
    /\ grid = hist.before_effective
    /\ prev_grid = grid

\* ---- C9 ----------------------------------------------------------
\* C9: add_tile changes exactly one cell, which was empty and now holds 2 or
\* 4, and leaves score, undo_available and previous_grid as they are.
C9_AddTileOnEmptyCell ==
    [][last'.op = "add_tile" =>
        /\ \E y \in Idx(size), x \in Idx(size) :
              /\ grid[y][x] = None
              /\ grid'[y][x] \in {2, 4}
              /\ \A v \in Idx(size), u \in Idx(size) :
                    <<u, v>> # <<x, y>> => grid'[v][u] = grid[v][u]
        /\ UNCHANGED <<score, undo_available, prev_grid>>
      ]_vars

\* an add_tile on a board that already held tiles and an undo snapshot
C9_Witness ==
    /\ last.op = "add_tile"
    /\ TileCount(grid, size) >= 3
    /\ can_undo

\* ---- C10 ---------------------------------------------------------
\* C10: a new Board has all size*size cells empty, score 0 and can_undo()
\* false, and can_undo() is false as long as no perform_move was effective.
C10_NoUndoBeforeFirstMove ==
    /\ last.op = "new" =>
          /\ \A y \in Idx(size), x \in Idx(size) : grid[y][x] = None
          /\ Cardinality(get_empty_tiles(grid, size)) = size * size
          /\ score = 0
          /\ ~can_undo
    /\ hist.effective = 0 => ~can_undo

\* add_tile, a no-op move and an undo have happened, no effective move
C10_Witness ==
    /\ hist.effective = 0 /\ hist.noops >= 1
    /\ last.op = "undo"
    /\ TileCount(grid, size) >= 1
    /\ ~can_undo

\* ---- C11 ---------------------------------------------------------
RECURSIVE Merges(_, _, _, _)
\* the number of merges in the lines 0 .. i-1 of a direction
Merges(g, n, direction, i) ==
    IF i = 0 THEN 0
    ELSE LET t == Tiles(ScanLine(g, n, direction, i - 1))
         IN Merges(g, n, direction, i - 1) + Len(t) - Len(GreedyMerge(t))

\* C11: after a perform_move whose swipe changed the grid, previous_grid is
\* the grid as it was before the call (whatever snapshot was there is
\* replaced), undo_available is true, and the live grid is the swiped grid
\* plus exactly one new tile, a 2 or a 4, on a cell that was empty in the
\* swiped grid: the tile count is the count before, less the merges, plus one.
C11_EffectiveMoveCommit ==
    [][last'.op = "perform_move" =>
        \A swiped \in {Swipe(last'.arg, grid, size).grid} :
            swiped # grid =>
                /\ prev_grid' = grid
                /\ undo_available'
                /\ \E new \in {{c \in Idx(size) \X Idx(size) :
                                   grid'[c[1]][c[2]] # swiped[c[1]][c[2]]}} :
                      /\ Cardinality(new) = 1
                      /\ \A c \in new : /\ swiped[c[1]][c[2]] = None
                                        /\ grid'[c[1]][c[2]] \in {2, 4}
                /\ TileCount(grid', size)
                      = TileCount(grid, size)
                        - Merges(grid, size, last'.arg, size) + 1
      ]_vars

\* a second effective move, with a merge, has replaced the first snapshot
C11_Witness ==
    /\ last.op = "perform_move" /\ last.effective
    /\ hist.effective = 2
    /\ hist.pts > 0
    /\ undo_available
    /\ prev_grid = hist.before_effective
    /\ TileCount(grid, size) = TileCount(prev_grid, size)

\* ---- C12 ---------------------------------------------------------
\* C12: on every grid, a completely full one included, and in every
\* direction, a swipe that changes the grid leaves at least one empty cell,
\* so that the add_tile of perform_move finds a location.
C12_SpawnNeverFaults ==
    [][(last'.op = "swipe" /\ grid' # grid) =>
        \E y \in Idx(size), x \in Idx(size) : grid'[y][x] = None
      ]_vars

\* a swipe has changed a full 3x3 grid
C12_Witness ==
    /\ size = 3
    /\ last.op = "swipe" /\ last.effective
    /\ Full(hist.before_effective, 3)
    /\ grid # hist.before_effective

\* ---- C13 ---------------------------------------------------------
\* no direction's swipe changes the grid
NoMove(g, n) == \A direction \in Directions : Swipe(direction, g, n).grid = g

\* C13: on every grid with at least one tile, the moves of all four
\* directions are no-ops exactly when the grid is full and no two
\* horizontally or vertically adjacent cells hold the same value.
C13_MoveAvailability ==
    TileCount(grid, size) >= 1 =>
        (NoMove(grid, size) <=> (Full(grid, size) /\ ~EqualNeighbours(grid, size)))

\* a swipe was tried on a full 3x3 grid that no direction can change
C13_Witness ==
    /\ size = 3
    /\ last.op = "swipe" /\ ~last.effective
    /\ Full(grid, 3) /\ ~EqualNeighbours(grid, 3)
    /\ NoMove(grid, 3)

\* ---- C14 ---------------------------------------------------------
RECURSIVE PowerOfTwo(_)
\* v is 2, 4, 8, 16, ...
PowerOfTwo(v) == v = 2 \/ (v > 2 /\ v % 2 = 0 /\ PowerOfTwo(v \div 2))

TileValues(g, n) ==
    \A y \in Idx(n), x \in Idx(n) : g[y][x] # None => PowerOfTwo(g[y][x])

\* C14: in every state reachable from a new board by add_tile, perform_move
\* and undo, every non-empty cell of the live grid, and of previous_grid
\* when there is one, holds a power of two that is at least 2.
C14_TileValues ==
    /\ TileValues(grid, size)
    /\ prev_grid # NoGrid => TileValues(prev_grid, size)

\* two merges in a row have made an 8; the snapshot holds the 4s
C14_Witness ==
    /\ prev_grid # NoGrid
    /\ \E y \in Idx(size), x \in Idx(size) : grid[y][x] = 8
    /\ \E y \in Idx(size), x \in Idx(size) : prev_grid[y][x] = 4
    /\ last.op = "perform_move" /\ hist.pts = 8

\* ---- C15 ---------------------------------------------------------
\* the grid with every row reversed
Mirror(g, n) == [y \in Idx(n) |-> [x \in Idx(n) |-> g[y][n - 1 - x]]]

\* the grid with rows and columns exchanged
Transpose(g, n) == [y \in Idx(n) |-> [x \in Idx(n) |-> g[x][y]]]

\* C15: swipe_right is swipe_left on the mirrored grid, mirrored back;
\* swipe_up is swipe_left on the transposed grid, transposed back; swipe_down
\* is swipe_right on the transposed grid, transposed back; each with the
\* same increase of score.
C15_DirectionsAreOneTransform ==
    [][last'.op = "swipe" =>
        /\ last'.arg = "r" =>
              \A sw \in {swipe_left(Mirror(grid, size), size)} :
                  grid' = Mirror(sw.grid, size) /\ score' = score + sw.pts
        /\ last'.arg = "u" =>
              \A sw \in {swipe_left(Transpose(grid, size), size)} :
                  grid' = Transpose(sw.grid, size) /\ score' = score + sw.pts
        /\ last'.arg = "d" =>
              \A sw \in {swipe_right(Transpose(grid, size), size)} :
                  grid' = Transpose(sw.grid, size) /\ score' = score + sw.pts
      ]_vars

\* an upward swipe of a 4x4 grid that is neither symmetric nor mirrored has
\* merged and moved tiles
C15_Witness ==
    /\ size = 4
    /\ last.op = "swipe" /\ last.arg = "u" /\ last.effective
    /\ score > 0
    /\ hist.before_effective # Transpose(hist.before_effective, 4)
    /\ hist.before_effective # Mirror(hist.before_effective, 4)
    /\ grid # Transpose(grid, 4)

\* ---- C16 ---------------------------------------------------------
\* C16: score is never negative and no operation decreases it: perform_move
\* leaves it equal or larger; add_tile (also when it ends in a fault) and
\* undo leave it as it is.
C16_ScoreNeverDecreases ==
    /\ [](score >= 0)
    /\ [][/\ score' >= score
          /\ last'.op \in {"add_tile", "undo", "add_tile_fault"} =>
                score' = score
         ]_vars

\* points were scored, the move was undone, and a tile was added after it
C16_Witness ==
    /\ score > 0
    /\ last.op = "add_tile"
    /\ hist.effective >= 1
    /\ ~undo_available
    /\ hist.added > 0

\* ---- C17 ---------------------------------------------------------
\* C17: perform_move with a direction that is none of the four tokens, and
\* add_tile on a board with no empty cell, each end in a fault and leave
\* grid, score, undo_available and previous_grid exactly as they were.
C17_FailFast ==
    [][/\ (last'.op \in {"perform_move", "perform_move_fault"}
            /\ last'.arg \notin Directions) =>
              /\ last'.op = "perform_move_fault"
              /\ UNCHANGED <<grid, score, undo_available, prev_grid>>
       /\ (last'.op \in {"add_tile", "add_tile_fault"} /\ Full(grid, size)) =>
              /\ last'.op = "add_tile_fault"
              /\ UNCHANGED <<grid, score, undo_available, prev_grid>>
      ]_vars

\* add_tile has faulted on a full 2x2 board with points and a snapshot
C17_Witness ==
    /\ size = 2
    /\ last.op = "add_tile_fault"
    /\ Full(grid, 2)
    /\ score > 0
    /\ undo_available /\ prev_grid # NoGrid

\* ---- C18 ---------------------------------------------------------
RECURSIVE CellSum(_, _, _)
\* the sum of the tiles in the first k cells of g, row by row
CellSum(g, n, k) ==
    IF k = 0 THEN 0
    ELSE LET c == g[(k - 1) \div n][(k - 1) % n]
         IN CellSum(g, n, k - 1) + (IF c = None THEN 0 ELSE c)

GridSum(g, n) == CellSum(g, n, n * n)

\* C18 as stated: in every reachable state where can_undo() is true, the sum
\* of the tiles of the live grid exceeds that of previous_grid by exactly 2
\* or 4, so the live grid differs from previous_grid.
C18_SpawnedTileDifference ==
    can_undo =>
        /\ GridSum(grid, size) - GridSum(prev_grid, size) \in {2, 4}
        /\ grid # prev_grid

\* C18, amended: in every reachable state where can_undo() is true, the sum
\* of the tiles of the live grid exceeds that of previous_grid by the spawned
\* tile, 2 or 4, plus the tiles add_tile has placed since that move (so by
\* exactly 2 or 4 while add_tile has not been called since); the live grid
\* differs from previous_grid.
C18_SumDifference ==
    can_undo =>
        /\ GridSum(grid, size) - GridSum(prev_grid, size) - hist.added \in {2, 4}
        /\ grid # prev_grid

\* add_tile has placed a 4 after a merging move that can still be undone
C18_Witness ==
    /\ can_undo
    /\ last.op = "add_tile"
    /\ hist.added = 4
    /\ hist.pts > 0
    /\ GridSum(grid, size) - GridSum(prev_grid, size) \in {6, 8}

\* ---- C19 ---------------------------------------------------------
\* C19: after an effective perform_move(d) that added s > 0, undo() and then
\* perform_move(d) again add the same s once more, the swipe being replayed
\* on the same grid; after k such move/undo cycles score has grown by k*s
\* while the undo has put the grid back to where the cycles started.
C19_ReplayedMoveScoresAgain ==
    /\ [][(last.op = "undo" /\ last.effective /\ hist.pts > 0
           /\ last'.op = "perform_move" /\ last'.arg = hist.direction) =>
             /\ score' = score + hist.pts
             /\ last'.effective
             /\ prev_grid' = prev_grid
         ]_vars
    /\ [](hist.cycles >= 1 =>
             /\ score = hist.start_score + hist.cycles * hist.pts
             /\ (last.op = "undo" /\ last.effective) =>
                   grid = hist.before_effective)

\* two cycles of a merging move and its undo: the grid is back at its start
\* and the score is twice the move's points, more than the tiles on the board
C19_Witness ==
    /\ last.op = "undo" /\ last.effective
    /\ hist.cycles = 2
    /\ hist.pts > 0
    /\ score = 2 * hist.pts
    /\ grid = hist.before_effective
    /\ score > GridSum(grid, size)

\* ---- C20 ---------------------------------------------------------
\* C20 as stated: previous_grid is absent until one effective move has
\* occurred, is replaced on each effective move and is absent again after
\* undo(), so that undo_available is true exactly when previous_grid holds a
\* state.
C20_UndoBufferConsumed ==
    /\ hist.effective = 0 => prev_grid = NoGrid
    /\ last.op = "undo" => prev_grid = NoGrid
    /\ undo_available <=> prev_grid # NoGrid

\* C20, amended: previous_grid is absent until one effective move has
\* occurred and is replaced on each effective move; undo() leaves it in
\* place and only sets undo_available false. undo_available becomes true on
\* each effective move, false on undo() and is changed by nothing else, so
\* it is true exactly when previous_grid holds a snapshot that has not been
\* restored since it was taken.
C20_UndoBufferKept ==
    /\ [](prev_grid = NoGrid <=> hist.effective = 0)
    /\ [](undo_available => prev_grid = hist.before_effective)
    /\ [][/\ (last'.op = "perform_move" /\ last'.effective) =>
                (prev_grid' = grid /\ undo_available')
          /\ last'.op = "undo" =>
                (prev_grid' = prev_grid /\ ~undo_available')
          /\ (last'.op # "undo"
                /\ ~(last'.op = "perform_move" /\ last'.effective)) =>
                UNCHANGED <<prev_grid, undo_available>>
         ]_vars

\* after an undo that restored the grid the snapshot is still in previous_grid
C20_Witness ==
    /\ last.op = "undo" /\ last.effective
    /\ ~undo_available
    /\ prev_grid # NoGrid
    /\ prev_grid = grid
    /\ hist.effective >= 2

====
